---- MODULE Spec2Model ----
(***************************************************************************)
(* Nanite: a Discord bot relaying Planetside 2 statistics.                 *)
(*                                                                         *)
(* The model follows one command invocation at a time through the four     *)
(* handlers of the bot (ping, population, pi, oi).  Handlers share no      *)
(* mutable state, so invocations are independent of each other.  Each      *)
(* handler is cut at the points where it awaits the outside world (the     *)
(* HTTP API, the census client, the Discord channel).                      *)
(*                                                                         *)
(* Python strings the code inspects letter by letter (lower, capitalize,   *)
(* dictionary keys) are sequences of one-letter strings.  An f-string is   *)
(* kept as its template and the tuple of the values interpolated in it.    *)
(***************************************************************************)
EXTENDS Integers, Sequences, FiniteSets, TLC

\* ------------------------------------------------------------------ bounds

\* Largest faction population count an API response carries.
MaxPop == 1

\* Largest clock reading (milliseconds) of the ping command.
MaxTime == 3

\* ------------------------------------------------------------ Python values

\* Python's None.  Every number the program handles is >= 0.
None == -1

\* Python truthiness of an Optional[int]: None and 0 are both false.
Truthy(v) == v # None /\ v # 0

LowerLetters == <<"a","b","c","d","e","f","g","h","i","j","k","l","m",
                  "n","o","p","q","r","s","t","u","v","w","x","y","z">>

UpperLetters == <<"A","B","C","D","E","F","G","H","I","J","K","L","M",
                  "N","O","P","Q","R","S","T","U","V","W","X","Y","Z">>

\* str.lower() on one character.
LowerChar(c) ==
    IF \E i \in 1..Len(UpperLetters) : UpperLetters[i] = c
    THEN LowerLetters[CHOOSE i \in 1..Len(UpperLetters) : UpperLetters[i] = c]
    ELSE c

\* str.upper() on one character.
UpperChar(c) ==
    IF \E i \in 1..Len(LowerLetters) : LowerLetters[i] = c
    THEN UpperLetters[CHOOSE i \in 1..Len(LowerLetters) : LowerLetters[i] = c]
    ELSE c

\* str.lower()
Lower(s) == [i \in 1..Len(s) |-> LowerChar(s[i])]

\* str.capitalize(): first character upper-cased, the rest lower-cased.
Capitalize(s) == [i \in 1..Len(s) |-> IF i = 1 THEN UpperChar(s[i]) ELSE LowerChar(s[i])]

\* ------------------------------------------------------------- world table

\* The dict literal `worlds` of _get_world_id: its keys, in source order.
worlds_keys ==
    << <<"c","o","n","n","e","r","y">>,
       <<"m","i","l","l","e","r">>,
       <<"c","o","b","a","l","t">>,
       <<"e","m","e","r","a","l","d">>,
       <<"j","a","e","g","e","r">>,
       <<"a","p","e","x">>,
       <<"s","o","l","T","e","c","h">> >>

\* The dict literal `worlds` of _get_world_id: its values, in source order.
worlds_values == <<1, 10, 13, 17, 19, 24, 40>>

\* dict.get(key, default) on the worlds dict: exact key match.
worlds_get(key, default) ==
    IF \E i \in 1..Len(worlds_keys) : worlds_keys[i] = key
    THEN worlds_values[CHOOSE i \in 1..Len(worlds_keys) : worlds_keys[i] = key]
    ELSE default

\* Planetside2._get_world_id
_get_world_id(world_name) == worlds_get(Lower(world_name), None)

\* --------------------------------------------------------------- the state

VARIABLES
    pc,           \* where the running handler stands ("idle": none is running)
    cmd,          \* the command being handled
    arg,          \* the argument the user typed (world, player_name, outfit_tag)
    world_id,     \* population: the local world_id
    embed,        \* the local embed, once built: <<>> or <<e>>
    caught,       \* the exception the handler's except clause caught: <<>> or <<x>>
    raised,       \* the exception that left the handler, or "none"
    requests,     \* the HTTP GETs this invocation issued, in order
    response,     \* what the GET came to, once it completed: <<>> or <<o>>
    sent,         \* the messages delivered to the invoking channel, in order
    coroutines,   \* coroutine objects created and never awaited
    send_failed,  \* whether an awaited ctx.send raised
    log,          \* the invocation's events, in order
    delta         \* ping: the local delta in milliseconds, once computed: <<>> or <<d>>

vars == <<pc, cmd, arg, world_id, embed, caught, raised, requests, response, sent,
          coroutines, send_failed, log, delta>>

\* ------------------------------------------------------ messages and embeds

\* An f-string: its template and the values interpolated, in order.
F(fmt, args) == [fmt |-> fmt, args |-> args]

\* The arguments of one ctx.send(content, embed=embed) call.
Message(content, e) == [content |-> content, embed |-> e]

\* Planetside2.__init__: self.COLOUR
COLOUR == "teal"

\* Planetside2.__init__: self.API_URL
API_URL == "https://ps2.fisu.pw/api"

\* Planetside2._create_embed: the Embed it returns when the library accepts
\* the call.
_create_embed(title, description, colour, thumbnail_url) ==
    [title |-> title, description |-> description, colour |-> colour,
     thumbnail |-> thumbnail_url]

\* Planetside2._get_json, line 69: the endpoint requested.
Endpoint(sub_resource) == F("{self.API_URL}/{sub_resource}", <<API_URL, sub_resource>>)

\* An exception and the source line that raised it.
Exc(name, line) == [exc |-> name, line |-> line]

\* ---------------------------------------------------------- the invocation

\* A handler starts: its argument is bound, its locals are fresh and it has
\* sent nothing yet.
Start(command, argument) ==
    /\ cmd' = command
    /\ arg' = argument
    /\ world_id' = None
    /\ embed' = <<>>
    /\ caught' = <<>>
    /\ raised' = "none"
    /\ requests' = <<>>
    /\ response' = <<>>
    /\ sent' = <<>>
    /\ coroutines' = <<>>
    /\ send_failed' = FALSE
    /\ log' = <<>>

\* `await ctx.send(...)`: the message is delivered and the handler goes on to
\* `next`, or the send raises and control passes to `on_error`.
AwaitSend(ok, msg, next, on_error) ==
    IF ok
    THEN /\ sent' = Append(sent, msg)
         /\ log' = Append(log, "send")
         /\ pc' = next
         /\ UNCHANGED <<send_failed, caught, raised>>
    ELSE /\ send_failed' = TRUE
         /\ log' = Append(log, "send_error")
         /\ pc' = on_error.pc
         /\ caught' = on_error.caught
         /\ raised' = on_error.raised
         /\ UNCHANGED sent

\* An exception that no except clause of the handler catches leaves it.
Propagate(name) == [pc |-> "done", caught |-> caught, raised |-> name]

\* `ctx.send(...)` without await: a coroutine object is created and dropped.
\* Its body never runs, so nothing reaches the channel.
UnawaitedSend(msg) ==
    /\ coroutines' = Append(coroutines, msg)
    /\ UNCHANGED sent

\* The handler has returned (normally or by an exception): its frame is
\* dropped and the bot is idle again.  The channel record is kept per
\* invocation, so it starts afresh with the next one.
Return ==
    /\ pc = "done"
    /\ pc' = "idle"
    /\ cmd' = "none"
    /\ arg' = <<>>
    /\ world_id' = None
    /\ embed' = <<>>
    /\ caught' = <<>>
    /\ raised' = "none"
    /\ requests' = <<>>
    /\ response' = <<>>
    /\ sent' = <<>>
    /\ coroutines' = <<>>
    /\ send_failed' = FALSE
    /\ log' = <<>>
    /\ delta' = <<>>

\* ------------------------------------------------------------------ inputs

\* Every upper/lower-case spelling of a name.
Spellings(name) ==
    { [i \in 1..Len(name) |-> IF i \in U THEN UpperChar(name[i]) ELSE LowerChar(name[i])] :
        U \in SUBSET (1..Len(name)) }

\* Names that spell no world of the table.
OtherNames ==
    { <<"b","r","i","g","g","s">>,
      <<"s","o","l","t","e","c">>,
      <<"A","p","e","x","x">> }

\* Every spelling of every world of the table, and the other names.
AllWorldNames ==
    UNION { Spellings(worlds_keys[i]) : i \in 1..Len(worlds_keys) } \cup OtherNames

\* str.upper()
Upper(s) == [i \in 1..Len(s) |-> UpperChar(s[i])]

\* What a user may type as the world of the population command: each world
\* as the table writes it, in lower case, in upper case and capitalised, and
\* the other names.
TypedWorlds ==
    UNION { { worlds_keys[i], Lower(worlds_keys[i]), Upper(worlds_keys[i]),
              Capitalize(worlds_keys[i]) } : i \in 1..Len(worlds_keys) }
    \cup OtherNames

\* ------------------------------------------------------- the population API

FactionKeys == {"tr", "nc", "vs", "ns"}

\* One element of the "result" list: a JSON object holding some of the
\* faction keys, each with a count.
ResultEntries ==
    UNION { [K -> 0..MaxPop] : K \in SUBSET FactionKeys }

\* The JSON documents the API may answer with.  The code reads element 0 of
\* "result" only, so a list is empty or one entry long.
JsonBodies ==
    { [top |-> "array", result_kind |-> "missing", result |-> <<>>],
      [top |-> "object", result_kind |-> "missing", result |-> <<>>],
      [top |-> "object", result_kind |-> "null", result |-> <<>>],
      [top |-> "object", result_kind |-> "list", result |-> <<>>] }
    \cup { [top |-> "object", result_kind |-> "list", result |-> <<e>>] :
             e \in ResultEntries }

\* What `session.get(endpoint, raise_for_status=True)` followed by
\* `resp.json()` comes to: an exception, or the parsed document.
HttpOutcomes ==
    { [exc |-> x, json |-> [top |-> "array", result_kind |-> "missing", result |-> <<>>]] :
        x \in {"ClientConnectionError", "ClientResponseError", "ContentTypeError"} }
    \cup { [exc |-> "none", json |-> b] : b \in JsonBodies }

\* Planetside2._get_json: raises what the request raised, else returns the
\* document.
_get_json(outcome) ==
    IF outcome.exc # "none"
    THEN [exc |-> <<Exc(outcome.exc, IF outcome.exc = "ContentTypeError" THEN 72 ELSE 71)>>,
          json |-> outcome.json]
    ELSE [exc |-> <<>>, json |-> outcome.json]

\* population, line 123: json["result"][0]
ReadResult(json) ==
    IF json.top # "object" THEN [exc |-> <<Exc("TypeError", 123)>>, data |-> <<>>]
    ELSE IF json.result_kind = "missing" THEN [exc |-> <<Exc("KeyError", 123)>>, data |-> <<>>]
    ELSE IF json.result_kind = "null" THEN [exc |-> <<Exc("TypeError", 123)>>, data |-> <<>>]
    ELSE IF Len(json.result) = 0 THEN [exc |-> <<Exc("IndexError", 123)>>, data |-> <<>>]
    ELSE [exc |-> <<>>, data |-> <<json.result[1]>>]

\* Mutant: the description reads the keys with a default (dict.get(key, 0))
\* instead of subscripting, so a missing key raises nothing.
Description_default(population_data) ==
    [exc |-> <<>>,
     text |-> <<F("**TR**: {tr}\n**NC**: {nc}\n**VS**: {vs}\n**NSO**: {ns}",
                  [i \in 1..4 |->
                     LET k == <<"tr", "nc", "vs", "ns">>[i]
                     IN  IF k \in DOMAIN population_data THEN population_data[k] ELSE 0])>>]

\* population, line 127: the description f-string reads the four faction keys.
Description(population_data) ==
    IF FactionKeys \subseteq DOMAIN population_data
    THEN [exc |-> <<>>,
          text |-> <<F("**TR**: {tr}\n**NC**: {nc}\n**VS**: {vs}\n**NSO**: {ns}",
                       <<population_data["tr"], population_data["nc"],
                         population_data["vs"], population_data["ns"]>>)>>]
    ELSE [exc |-> <<Exc("KeyError", 127)>>, text |-> <<>>]

\* population, lines 119-129: the body of the try block up to the send.
\* `lib_ok` is whether the discord library accepts the calls _create_embed
\* makes (Embed(...).set_thumbnail(thumbnail_url)).
PopulationTry(world, outcome, lib_ok) ==
    LET got == _get_json(outcome)
        res == ReadResult(got.json)
        desc == Description(res.data[1])
    IN  IF got.exc # <<>> THEN [exc |-> got.exc, embed |-> <<>>]
        ELSE IF res.exc # <<>> THEN [exc |-> res.exc, embed |-> <<>>]
        ELSE IF desc.exc # <<>> THEN [exc |-> desc.exc, embed |-> <<>>]
        ELSE IF ~lib_ok THEN [exc |-> <<Exc("TypeError", 92)>>, embed |-> <<>>]
        ELSE [exc |-> <<>>,
              embed |-> <<_create_embed(
                            F("Current population data for: {world.capitalize()}",
                              <<Capitalize(world)>>),
                            desc.text[1], COLOUR, <<>>)>>]

\* population, line 136: the text sent from the except clause.
PopulationFailedText(world, id) ==
    F("Failed to get current population data for world: {world}, ID: {world_id}",
      <<world, id>>)

\* population, line 140: the text sent for a world the lookup does not know.
WorldUnknownText(world) == F("World: {world} unknown.", <<world>>)

\* ------------------------------------------------------ population command

\* The command is invoked with a typed world.
population ==
    \E world \in TypedWorlds :
        /\ pc = "idle"
        /\ pc' = "population_L114"
        /\ delta' = <<>>
        /\ Start("population", world)

\* Lines 114-115: look the world up, branch on the ID.
population_L114 ==
    /\ pc = "population_L114"
    /\ world_id' = _get_world_id(arg)
    /\ log' = Append(log, "world_lookup")
    /\ pc' = IF Truthy(world_id') THEN "population_L119" ELSE "population_L140"
    /\ UNCHANGED <<cmd, arg, embed, caught, raised, requests, response, sent, coroutines,
                   send_failed, delta>>

\* Lines 116-121 and 69-71: open the session and issue the GET.
population_L119 ==
    /\ pc = "population_L119"
    /\ requests' = Append(requests,
                          Endpoint(F("population/?world={world_id}", <<world_id>>)))
    /\ log' = Append(log, "http_get")
    /\ pc' = "_get_json_L71"
    /\ UNCHANGED <<cmd, arg, world_id, embed, caught, raised, response, sent, coroutines,
                   send_failed, delta>>

\* Mutant: a request that raised is issued once more before giving up.
_get_json_L71_retry ==
    /\ pc = "_get_json_L71"
    /\ \E outcome \in HttpOutcomes, lib_ok \in BOOLEAN :
         LET r == PopulationTry(arg, outcome, lib_ok)
             again == outcome.exc # "none" /\ Len(requests) < 2
         IN  /\ log' = Append(log, "http_done")
             /\ response' = <<outcome>>
             /\ embed' = r.embed
             /\ caught' = IF again THEN <<>> ELSE r.exc
             /\ pc' = IF again THEN "population_L119"
                      ELSE IF r.exc = <<>> THEN "population_L130" ELSE "population_L135"
    /\ UNCHANGED <<cmd, arg, world_id, raised, requests, sent, coroutines,
                   send_failed, delta>>

\* Lines 71-72 and 123-129: the request completes; the rest of the try block
\* runs up to the send, or an exception takes control to the except clause.
_get_json_L71 ==
    /\ pc = "_get_json_L71"
    /\ \E outcome \in HttpOutcomes, lib_ok \in BOOLEAN :
         LET r == PopulationTry(arg, outcome, lib_ok)
         IN  /\ log' = Append(log, "http_done")
             /\ response' = <<outcome>>
             /\ embed' = r.embed
             /\ caught' = r.exc
             /\ pc' = IF r.exc = <<>> THEN "population_L130" ELSE "population_L135"
    /\ UNCHANGED <<cmd, arg, world_id, raised, requests, sent, coroutines,
                   send_failed, delta>>

\* Line 130: await ctx.send(embed=embed), inside the try block.
population_L130 ==
    /\ pc = "population_L130"
    /\ \E ok \in BOOLEAN :
         AwaitSend(ok, Message(<<>>, embed), "done",
                   [pc |-> "population_L135",
                    caught |-> <<Exc("HTTPException", 130)>>,
                    raised |-> raised])
    /\ UNCHANGED <<cmd, arg, world_id, embed, requests, response, coroutines, delta>>

\* Lines 131-137: the except clause sends the failure text.
population_L135 ==
    /\ pc = "population_L135"
    /\ \E ok \in BOOLEAN :
         AwaitSend(ok, Message(<<PopulationFailedText(arg, world_id)>>, <<>>), "done",
                   Propagate("HTTPException"))
    /\ UNCHANGED <<cmd, arg, world_id, embed, requests, response, coroutines, delta>>

\* Mutant: the else branch calls ctx.send without awaiting it, as the except
\* clauses of pi and oi do.
population_L140_unawaited ==
    /\ pc = "population_L140"
    /\ UnawaitedSend(Message(<<WorldUnknownText(arg)>>, <<>>))
    /\ pc' = "done"
    /\ UNCHANGED <<cmd, arg, world_id, embed, caught, raised, requests, response,
                   send_failed, log, delta>>

\* Lines 138-140: the world is unknown.
population_L140 ==
    /\ pc = "population_L140"
    /\ \E ok \in BOOLEAN :
         AwaitSend(ok, Message(<<WorldUnknownText(arg)>>, <<>>), "done",
                   Propagate("HTTPException"))
    /\ UNCHANGED <<cmd, arg, world_id, embed, requests, response, coroutines, delta>>

\* ------------------------------------------------------------- pi command

\* Player names a user may type.
TypedPlayers == { <<"H","i","g","b","y">>, <<"n","o","b","o","d","y">> }

\* The awaits of pi's try block, by line; 0 stands for "none of them".
PiAwaits == {155, 161, 163, 165, 167, 170, 175, 189, 196}

\* One row of a by-faction statistic (weapon_kills, weapon_headshots).
FactionRows ==
    { [value_forever_vs |-> 0, value_forever_nc |-> 0, value_forever_tr |-> 0],
      [value_forever_vs |-> 1, value_forever_nc |-> 2, value_forever_tr |-> 3] }

\* What the census answers during one pi invocation: the await that raises
\* (0: none), whether the character exists, and the statistics returned.
\* `times_attr` is whether the library resolves `player.times` (line 193).
CensusPlayers ==
    [ api_error : PiAwaits \cup {0},
      found : BOOLEAN,
      minutes_played : {0, 120},
      weapon_deaths : {<<>>, <<[value_forever |-> 0]>>, <<[value_forever |-> 4]>>},
      weapon_kills : {<<>>} \cup { <<r>> : r \in FactionRows },
      score : {<<>>, <<[all_time |-> 600]>>},
      weapon_headshots : {<<>>} \cup { <<r>> : r \in FactionRows },
      times_attr : BOOLEAN ]

\* round(a / b, 2), in hundredths (to the nearest hundredth).
Round2(a, b) == (200 * a + b) \div (2 * b)

\* Lines 180-182 and 201-203: the sum over the three factions.
FactionTotal(row) == row.value_forever_vs + row.value_forever_nc + row.value_forever_tr

\* pi, lines 155-206: the first exception the try block raises, if any.
PiTryException(c) ==
    LET hours == Round2(c.minutes_played, 60)
        kills == FactionTotal(c.weapon_kills[1])
    IN  IF c.api_error = 155 THEN <<Exc("CensusError", 155)>>
        ELSE IF ~c.found THEN <<Exc("AttributeError", 158)>>
        ELSE IF c.api_error \in {161, 163, 165, 167, 170}
             THEN <<Exc("CensusError", c.api_error)>>
        ELSE IF c.weapon_deaths = <<>> THEN <<Exc("IndexError", 173)>>
        ELSE IF c.api_error = 175 THEN <<Exc("CensusError", 175)>>
        ELSE IF c.weapon_kills = <<>> THEN <<Exc("IndexError", 180)>>
        ELSE IF hours = 0 THEN <<Exc("ZeroDivisionError", 185)>>
        ELSE IF c.weapon_deaths[1].value_forever = 0 THEN <<Exc("ZeroDivisionError", 187)>>
        ELSE IF c.api_error = 189 THEN <<Exc("CensusError", 189)>>
        ELSE IF c.score = <<>> THEN <<Exc("IndexError", 190)>>
        ELSE IF ~c.times_attr THEN <<Exc("AttributeError", 193)>>
        ELSE IF c.minutes_played = 0 THEN <<Exc("ZeroDivisionError", 193)>>
        ELSE IF c.api_error = 196 THEN <<Exc("CensusError", 196)>>
        ELSE IF c.weapon_headshots = <<>> THEN <<Exc("IndexError", 201)>>
        ELSE IF kills = 0 THEN <<Exc("ZeroDivisionError", 206)>>
        ELSE <<>>

\* pi, lines 214-255: the embed built from a lookup that raised nothing.
\* Ratios are in hundredths.
PiEmbed(player_name, c) ==
    LET hours == Round2(c.minutes_played, 60)
        kills == FactionTotal(c.weapon_kills[1])
        deaths == c.weapon_deaths[1].value_forever
        total_score == c.score[1].all_time
        hs == FactionTotal(c.weapon_headshots[1])
    IN  _create_embed(
            F("{player.data.name.first}'s Information", <<player_name>>),
            F("player_info",
              <<kills, deaths, total_score,
                Round2(kills, deaths),
                Round2(total_score, c.minutes_played),
                Round2(100 * hs, kills),
                Round2(100 * kills, hours),
                hours, c.minutes_played>>),
            COLOUR,
            <<F("https://census.daybreakgames.com{player_faction.data.image_path}", <<>>)>>)

\* pi, line 211: the text of the except clause.
PlayerFailedText(player_name) ==
    F("Failed to get player information for: {player_name}", <<player_name>>)

\* The command is invoked with a typed player name.
pi ==
    \E player_name \in TypedPlayers :
        /\ pc = "idle"
        /\ pc' = "pi_L155"
        /\ delta' = <<>>
        /\ Start("pi", player_name)

\* Lines 152-206 and 213-255: the lookups of the try block, then (when none
\* raised) the embed is built outside it.
pi_L155 ==
    /\ pc = "pi_L155"
    /\ \E c \in CensusPlayers, lib_ok \in BOOLEAN :
         LET x == PiTryException(c)
         IN  /\ log' = Append(log, "census_done")
             /\ caught' = x
             /\ IF x # <<>>
                THEN /\ pc' = "pi_L207"
                     /\ UNCHANGED <<embed, raised>>
                ELSE IF ~lib_ok
                THEN /\ pc' = "done"
                     /\ raised' = "TypeError"
                     /\ UNCHANGED embed
                ELSE /\ pc' = "pi_L256"
                     /\ embed' = <<PiEmbed(arg, c)>>
                     /\ UNCHANGED raised
    /\ UNCHANGED <<cmd, arg, world_id, requests, response, sent, coroutines, send_failed, delta>>

\* Lines 207-212: the except clause calls ctx.send without awaiting it, then
\* returns.
pi_L207 ==
    /\ pc = "pi_L207"
    /\ UnawaitedSend(Message(<<PlayerFailedText(arg)>>, <<>>))
    /\ pc' = "done"
    /\ UNCHANGED <<cmd, arg, world_id, embed, caught, raised, requests, response, send_failed,
                   log, delta>>

\* Line 256: await ctx.send(embed=embed), outside any try block.
pi_L256 ==
    /\ pc = "pi_L256"
    /\ \E ok \in BOOLEAN :
         AwaitSend(ok, Message(<<>>, embed), "done", Propagate("HTTPException"))
    /\ UNCHANGED <<cmd, arg, world_id, embed, requests, response, coroutines, delta>>

\* ------------------------------------------------------------- oi command

\* Outfit tags a user may type.
TypedTags == { <<"t","r","i","d">>, <<"X","X","X","X">> }

\* What the census answers during one oi invocation: the await that raises
\* (0: none), whether the outfit exists and whether its leader is found.
CensusOutfits ==
    [ api_error : {0, 271, 275},
      found : BOOLEAN,
      leader_found : BOOLEAN,
      member_count : {1, 2} ]

\* oi, lines 271-277: the first exception the try block raises, if any.
OiTryException(c) ==
    IF c.api_error = 271 THEN <<Exc("CensusError", 271)>>
    ELSE IF ~c.found THEN <<Exc("AttributeError", 276)>>
    ELSE IF c.api_error = 275 THEN <<Exc("CensusError", 275)>>
    ELSE <<>>

\* oi, lines 287-297: the embed built from a lookup that raised nothing.
OiEmbed(outfit_tag, c) ==
    _create_embed(
        F("Outfit Information for {outfit_tag.capitalize()}:", <<Capitalize(outfit_tag)>>),
        F("outfit_info", <<c.member_count, c.leader_found>>),
        COLOUR,
        <<>>)

\* oi, line 283: the text of the except clause.
OutfitFailedText(outfit_tag) ==
    F("Failed to get outfit information for outfit tag: {outfit_tag}.", <<outfit_tag>>)

\* The command is invoked with a typed outfit tag.
oi ==
    \E outfit_tag \in TypedTags :
        /\ pc = "idle"
        /\ pc' = "oi_L271"
        /\ delta' = <<>>
        /\ Start("oi", outfit_tag)

\* Lines 268-277 and 286-297: the two lookups of the try block, then (when
\* none raised) the embed is built outside it.
oi_L271 ==
    /\ pc = "oi_L271"
    /\ \E c \in CensusOutfits, lib_ok \in BOOLEAN :
         LET x == OiTryException(c)
         IN  /\ log' = Append(log, "census_done")
             /\ caught' = x
             /\ IF x # <<>>
                THEN /\ pc' = "oi_L278"
                     /\ UNCHANGED <<embed, raised>>
                ELSE IF ~lib_ok
                THEN /\ pc' = "done"
                     /\ raised' = "TypeError"
                     /\ UNCHANGED embed
                ELSE /\ pc' = "oi_L298"
                     /\ embed' = <<OiEmbed(arg, c)>>
                     /\ UNCHANGED raised
    /\ UNCHANGED <<cmd, arg, world_id, requests, response, sent, coroutines, send_failed, delta>>

\* Lines 278-285: the except clause calls ctx.send without awaiting it, then
\* returns.
oi_L278 ==
    /\ pc = "oi_L278"
    /\ UnawaitedSend(Message(<<OutfitFailedText(arg)>>, <<>>))
    /\ pc' = "done"
    /\ UNCHANGED <<cmd, arg, world_id, embed, caught, raised, requests, response, send_failed,
                   log, delta>>

\* Line 298: await ctx.send(embed=embed), outside any try block.
oi_L298 ==
    /\ pc = "oi_L298"
    /\ \E ok \in BOOLEAN :
         AwaitSend(ok, Message(<<>>, embed), "done", Propagate("HTTPException"))
    /\ UNCHANGED <<cmd, arg, world_id, embed, requests, response, coroutines, delta>>

\* ----------------------------------------------------------- ping command

\* The names bound at module level in nanite.py.
NaniteGlobals ==
    {"BOT_COMMAND_PREFIX", "BOT_DESCRIPTION", "discord", "datetime", "logger",
     "nanite", "on_ready", "ping"}

\* The names bound in ping's frame when line 34 runs: its parameter and the
\* local assigned on line 33.
PingLocals == {"ctx", "delta"}

\* The names the f-string of line 34 evaluates.
PingLogNames == {"time_difference"}

\* Python name resolution: a name neither local nor global raises NameError.
Resolves(name, locals, globals) == name \in locals \cup globals

\* ping, lines 35-38: the message sent.
PongMessage(d) ==
    Message(<<F("Pong!\n**Latency**: {delta.total_seconds() * 1000}ms", <<d>>)>>,
            <<_create_embed(":ping_pong:", "", "red", <<>>)>>)

\* The command is invoked; line 33 takes the difference of the clock and the
\* creation time of the invoking message (both in milliseconds).
ping ==
    \E created_at \in 0..MaxTime, now \in 0..MaxTime :
        /\ pc = "idle"
        /\ pc' = "ping_L34"
        /\ delta' = <<now - created_at>>
        /\ Start("ping", <<>>)

\* Lines 34-38: the log line's f-string is evaluated, then the pong is sent.
ping_L34 ==
    /\ pc = "ping_L34"
    /\ IF \A n \in PingLogNames : Resolves(n, PingLocals, NaniteGlobals)
       THEN \E ok \in BOOLEAN :
              AwaitSend(ok, PongMessage(delta[1]), "done", Propagate("HTTPException"))
       ELSE /\ pc' = "done"
            /\ raised' = "NameError"
            /\ UNCHANGED <<caught, sent, send_failed, log>>
    /\ UNCHANGED <<cmd, arg, world_id, embed, requests, response, coroutines, delta>>

\* ------------------------------------------------- the world lookup alone

\* _get_world_id is about to be called with some world name.
InitWorld ==
    /\ pc = "_get_world_id_L53"
    /\ cmd = "_get_world_id"
    /\ arg \in AllWorldNames
    /\ world_id = None
    /\ embed = <<>>
    /\ caught = <<>>
    /\ raised = "none"
    /\ requests = <<>>
    /\ response = <<>>
    /\ sent = <<>>
    /\ coroutines = <<>>
    /\ send_failed = FALSE
    /\ log = <<>>
    /\ delta = <<>>

\* Lines 53-55: the lookup runs and returns.
_get_world_id_L53 ==
    /\ pc = "_get_world_id_L53"
    /\ world_id' = _get_world_id(arg)
    /\ pc' = "_get_world_id_L55"
    /\ UNCHANGED <<cmd, arg, embed, caught, raised, requests, response, sent,
                   coroutines, send_failed, log, delta>>

NextWorld == _get_world_id_L53

SpecWorld == InitWorld /\ [][NextWorld]_vars

\* ------------------------------------------------------------ specification

Init ==
    /\ pc = "idle"
    /\ cmd = "none"
    /\ arg = <<>>
    /\ world_id = None
    /\ embed = <<>>
    /\ caught = <<>>
    /\ raised = "none"
    /\ requests = <<>>
    /\ response = <<>>
    /\ sent = <<>>
    /\ coroutines = <<>>
    /\ send_failed = FALSE
    /\ log = <<>>
    /\ delta = <<>>

Next ==
    \/ population
    \/ population_L114
    \/ population_L119
    \/ _get_json_L71
    \/ population_L130
    \/ population_L135
    \/ population_L140
    \/ pi
    \/ pi_L155
    \/ pi_L207
    \/ pi_L256
    \/ oi
    \/ oi_L271
    \/ oi_L278
    \/ oi_L298
    \/ ping
    \/ ping_L34
    \/ Return

Spec == Init /\ [][Next]_vars

\* ------------------------------------------------------------------ claims

\* C1: when a step of pi's player lookup raises, the invocation ends with the
\* text "Failed to get player information for: <player_name>" delivered to
\* the invoking channel, no embed sent, and no exception leaving the handler.
C1_PiFailureDelivered ==
    (cmd = "pi" /\ pc = "done" /\ caught # <<>>) =>
        /\ sent = <<Message(<<PlayerFailedText(arg)>>, <<>>)>>
        /\ raised = "none"

\* C2: when retrieving the outfit or its leader raises in oi, the invocation
\* ends with the text "Failed to get outfit information for outfit tag:
\* <outfit_tag>." delivered to the invoking channel, no embed sent, and no
\* exception leaving the handler.
C2_OiFailureDelivered ==
    (cmd = "oi" /\ pc = "done" /\ caught # <<>>) =>
        /\ sent = <<Message(<<OutfitFailedText(arg)>>, <<>>)>>
        /\ raised = "none"

\* C3: every invocation of ping ends having sent exactly one message, the
\* "Pong!" text with the latency computed on line 33, and without an error
\* before the send.
C3_PingPongs ==
    (cmd = "ping" /\ pc = "done" /\ ~send_failed) =>
        /\ sent = <<PongMessage(delta[1])>>
        /\ raised = "none"

\* The world the table lists under a spelling of `name`, if any: its index.
ListedWorld(name) ==
    { i \in 1..Len(worlds_keys) : Lower(worlds_keys[i]) = Lower(name) }

\* C4: _get_world_id is a case-insensitive lookup: every upper/lower-case
\* spelling of a world the table lists yields that world's ID, and every
\* other name yields None.
C4_WorldLookupCaseInsensitive ==
    (pc = "_get_world_id_L55") =>
        IF ListedWorld(arg) # {}
        THEN \A i \in ListedWorld(arg) : world_id = worlds_values[i]
        ELSE world_id = None

\* The steps of a running population handler.
PopulationStep ==
    \/ population_L114
    \/ population_L119
    \/ _get_json_L71
    \/ population_L130
    \/ population_L135
    \/ population_L140

\* The three messages the population command may answer with.
IsPopulationAnswer(m) ==
    \/ /\ m.content = <<>>
       /\ m.embed # <<>>
       /\ m.embed = embed
       /\ m.embed[1].title.fmt = "Current population data for: {world.capitalize()}"
    \/ m = Message(<<PopulationFailedText(arg, world_id)>>, <<>>)
    \/ m = Message(<<WorldUnknownText(arg)>>, <<>>)

\* C5: provided no ctx.send fails, every population invocation terminates
\* having sent exactly one message, which is the population embed, the
\* "Failed to get current population data" text or the "World: <world>
\* unknown." text; and the message is sent only after the world lookup and,
\* when a request was made, after the request completed.
C5_PopulationSendsExactlyOne ==
    (cmd = "population") =>
        \* it terminates: a handler that has not returned can take a step, and
        \* it takes at most four when no send fails
        /\ (pc # "done" => ENABLED PopulationStep)
        /\ (~send_failed => Len(log) <= 4)
        /\ Len(log) <= 5
        \* one message, of the three
        /\ Len(sent) <= 1
        /\ (pc # "done" => sent = <<>>)
        /\ (pc = "done" /\ ~send_failed) =>
               (Len(sent) = 1 /\ IsPopulationAnswer(sent[1]))
        \* sent last, after the lookup and after the request
        /\ \A i \in 1..Len(log) :
               log[i] = "send" =>
                   /\ i = Len(log)
                   /\ \E j \in 1..(i - 1) : log[j] = "world_lookup"
                   /\ \A j \in 1..Len(log) :
                          log[j] = "http_get" =>
                              \E k \in (j + 1)..(i - 1) : log[k] = "http_done"

\* C5, its case: an invocation that ended having sent the population embed.
C5_Witness ==
    /\ cmd = "population"
    /\ pc = "done"
    /\ ~send_failed
    /\ Len(sent) = 1
    /\ sent[1].embed # <<>>
    /\ log = <<"world_lookup", "http_get", "http_done", "send">>

\* The failures of the fetch and of the read that C6 lists: the request
\* raised (connection, status, not JSON), or the document has no usable
\* "result" list, or its first entry lacks a faction key.
FetchOrReadFails(o) ==
    \/ o.exc # "none"
    \/ o.json.top # "object"
    \/ o.json.result_kind # "list"
    \/ o.json.result = <<>>
    \/ ~(FactionKeys \subseteq DOMAIN o.json.result[1])

\* What C6 promises after such a failure.
FailureReported ==
    /\ sent = <<Message(<<PopulationFailedText(arg, world_id)>>, <<>>)>>
    /\ raised = "none"

C7_AtMostOneGet ==
    (cmd = "population") =>
        /\ Len(requests) <= 1
        /\ \A i \in 1..Len(requests) :
               requests[i] =
                   Endpoint(F("population/?world={world_id}", <<_get_world_id(arg)>>))

\* C7, its case: the request raised and the invocation ended with that one
\* request.
C7_Witness ==
    /\ cmd = "population"
    /\ pc = "done"
    /\ response # <<>>
    /\ response[1].exc = "ClientConnectionError"
    /\ Len(requests) = 1

====
